---- MODULE Spec2Model ----
(***************************************************************************)
(* Model of app/main.py of baserow-record-linker: link_related_records     *)
(* and the helpers it calls (filter_baserow_table,                         *)
(* create_index_from_table), run against a remote Baserow whose tables are *)
(* the only persistent state.                                              *)
(*                                                                         *)
(* Python values are records [t, v]: t is the Python type, v a sequence    *)
(* (the characters of a str, the digits of an int, empty for None). *)
(* A row is a record of its fields; a row that lacks a field has no such   *)
(* record field, and reading it is Python's KeyError.                      *)
(***************************************************************************)
EXTENDS Integers, Sequences, FiniteSets, TLC

\* ---------------------------------------------------------------- bounds
MaxRows == 2        \* rows per remote table
MaxConfigs == 2     \* length of record_linker_configs
MaxRuns == 2        \* successive invocations of link_related_records
MaxScan == 5        \* rows scanned by create_index_from_table in SpecIndex

\* ---------------------------------------------------------- Python values
PyStr(s) == [t |-> "str", v |-> s]
PyNone == [t |-> "none", v |-> <<>>]
PyInt(n) == [t |-> "int", v |-> << ToString(n) >>]

\* bool(value): the test of `if field_value:`
Truthy(val) ==
  CASE val.t = "str" -> val.v # <<>>
    [] val.t = "int" -> val.v # << "0" >>
    [] OTHER -> FALSE

\* fault: every value is taken to support .strip()
HasStripAlways(val) == TRUE
\* only str has .strip(); anything else raises AttributeError
HasStrip(val) == val.t = "str"

RECURSIVE lstrip(_)
lstrip(s) == IF s # <<>> /\ Head(s) = " " THEN lstrip(Tail(s)) ELSE s

RECURSIVE rstrip(_)
rstrip(s) ==
  IF s # <<>> /\ s[Len(s)] = " " THEN rstrip(SubSeq(s, 1, Len(s) - 1)) ELSE s

strip(s) == rstrip(lstrip(s))

LowerChar(c) ==
  CASE c = "A" -> "a"
    [] c = "B" -> "b"
    [] c = "Z" -> "z"
    [] OTHER -> c

lower(s) == [i \in 1..Len(s) |-> LowerChar(s[i])]

\* field_value.strip().lower()
normalize(s) == lower(strip(s))

\* ------------------------------------------------------------ the index
EmptyIndex == [k \in {} |-> PyNone]

\* fault: an existing entry is kept
PutFirstWins(index, key, row) ==
  IF key \in DOMAIN index THEN index
  ELSE [k \in DOMAIN index \cup {key} |-> IF k = key THEN row ELSE index[k]]
\* index[clean_value] = row
Put(index, key, row) ==
  [k \in DOMAIN index \cup {key} |-> IF k = key THEN row ELSE index[k]]

\* fault: a value that cannot be stripped is skipped like a missing field
IndexRowSwallow(acc, row, field_name) ==
  IF acc.raised THEN acc
  ELSE IF field_name \notin DOMAIN row THEN acc
  ELSE IF Truthy(row[field_name]) /\ HasStrip(row[field_name])
       THEN [acc EXCEPT !.index = Put(acc.index, normalize(row[field_name].v), row)]
       ELSE acc
\* one iteration of `for row in rows` of create_index_from_table;
\* acc = [index, raised]
IndexRow(acc, row, field_name) ==
  IF acc.raised THEN acc
  ELSE IF field_name \notin DOMAIN row THEN acc            \* except KeyError: continue
  ELSE LET field_value == row[field_name] IN
       IF Truthy(field_value)
       THEN IF HasStrip(field_value)
            THEN [acc EXCEPT !.index =
                     Put(acc.index, normalize(field_value.v), row)]
            ELSE [acc EXCEPT !.raised = TRUE]              \* except Exception: raise
       ELSE acc                                            \* warning, row skipped

RECURSIVE IndexRows(_, _, _)
IndexRows(acc, rows, field_name) ==
  IF rows = <<>> THEN acc
  ELSE IndexRows(IndexRow(acc, Head(rows), field_name), Tail(rows), field_name)

\* the loop of create_index_from_table over the retrieved rows
create_index_from_table(rows, field_name) ==
  IndexRows([index |-> EmptyIndex, raised |-> FALSE], rows, field_name)

\* --------------------------------------------------------- the work queue
\* Baserow's "empty" filter on a field
IsEmpty(val) == val.t = "none" \/ (val.t = "str" /\ val.v = <<>>)

\* fault: the filter is not applied
EmptyFilterAll(rows, field) == rows
\* table.get_rows(filters=[Filter(reference_field, "", "empty")])
EmptyFilter(rows, field) ==
  SelectSeq(rows, LAMBDA r : field \in DOMAIN r /\ IsEmpty(r[field]))

\* `if filtered_rows: return filtered_rows else: return []`
filter_baserow_table(rows, field) ==
  IF EmptyFilter(rows, field) # <<>> THEN EmptyFilter(rows, field) ELSE <<>>

\* fault: the empty work queue is not tested
NoShortCircuit(rows) == FALSE
\* `if not source_table_rows: continue`
NoUnlinkedRows(rows) == rows = <<>>

\* ------------------------------------------------------------ the configs
\* fault: the primary-key field is not among the fields checked
required_fields_short ==
  << "source_table_id", "target_table_id", "source_table_match_field",
     "target_table_match_field", "source_table_reference_field" >>
required_fields ==
  << "source_table_id", "target_table_id", "source_table_match_field",
     "target_table_match_field", "target_table_primary_key_field",
     "source_table_reference_field" >>

\* the first required field the config lacks, "" when none is missing
RECURSIVE FirstMissingIn(_, _)
FirstMissingIn(fields, config) ==
  IF fields = <<>> THEN ""
  ELSE IF Head(fields) \notin DOMAIN config THEN Head(fields)
  ELSE FirstMissingIn(Tail(fields), config)

FirstMissing(config) == FirstMissingIn(required_fields, config)

\* the six subscript reads of "Extract configuration details"
ExtractedKeys ==
  << "source_table_id", "target_table_id", "source_table_match_field",
     "target_table_match_field", "target_table_primary_key_field",
     "source_table_reference_field" >>

\* fault: the row id is written instead of the primary-key value
ReferenceValueRowId(target_row, pk_field) == PyInt(target_row.id)
\* target_row[target_table_primary_key_field]
ReferenceValue(target_row, pk_field) == target_row[pk_field]

\* ------------------------------------------------------- the remote data
TableIds == {1, 2}

\* match-field contents of the rows of the source table (1), of the target
\* table (2) and of the table create_index_from_table scans in SpecIndex;
\* Absent marks a row that has no such field
Absent == [t |-> "absent", v |-> <<>>]
SrcChoices == { Absent, PyNone, PyStr(<<"B">>), PyStr(<<"Z">>) }
TgtChoices == { PyStr(<<"b">>), PyStr(<<" ", "B", " ">>), PyInt(7) }
ScanChoices ==
  { Absent, PyNone, PyStr(<<>>), PyStr(<<" ">>), PyStr(<<"A">>),
    PyStr(<<" ", "a", " ">>), PyStr(<<"B">>), PyInt(7) }

\* row number i of table t: Row.id, the fields "name" (match field), "link"
\* (reference field, empty before linking) and "pk" (primary field)
MkRow(t, i, name) ==
  IF name = Absent
  THEN [id |-> i, link |-> PyNone, pk |-> PyInt(20 * t + i)]
  ELSE [id |-> i, name |-> name, link |-> PyNone, pk |-> PyInt(20 * t + i)]

\* the table t whose rows have the match-field contents names[1], names[2], ...
MkTable(t, names) == [i \in 1..Len(names) |-> MkRow(t, i, names[i])]

BaseConfig(s, t) ==
  [ source_table_id |-> s, target_table_id |-> t,
    source_table_match_field |-> "name", target_table_match_field |-> "name",
    target_table_primary_key_field |-> "pk",
    source_table_reference_field |-> "link" ]

Without(config, keys) == [k \in DOMAIN config \ keys |-> config[k]]

ConfigChoices ==
  { BaseConfig(1, 2),
    Without(BaseConfig(1, 2), {"target_table_primary_key_field"}),
    Without(BaseConfig(1, 2),
            {"source_table_match_field", "source_table_reference_field"}) }

ConfigLists ==
  UNION { [1..n -> ConfigChoices] : n \in 1..MaxConfigs }

\* -------------------------------------------------------------- the state
VARIABLES
  tables,    \* remote: table id -> sequence of rows
  configs,   \* record_linker_configs
  run,       \* number of invocations of link_related_records so far
  pc,        \* position inside link_related_records
  ci,        \* index of record_linker_config in record_linker_configs
  queue,     \* source_table_rows
  qi,        \* index of source_row in source_table_rows
  index,     \* target_table_index
  err,       \* the exception that left link_related_records
  trace,     \* remote calls and warnings of the current run, in order
  linked,    \* <<table, row id>> of the rows updated by the earlier runs
  fullAtStart \* every source table of configs had no empty reference at run start

vars ==
  << tables, configs, run, pc, ci, queue, qi, index, err, trace, linked,
     fullAtStart >>

\* an exception, and the position of link_related_records that raised it
NoErr == [kind |-> "", what |-> "", at |-> ""]
Exc(kind, what) == [kind |-> kind, what |-> what, at |-> pc]

\* one entry of trace
Event(op, phase, table, row, rows, val, ok) ==
  [ op |-> op, cfg |-> ci, phase |-> phase, table |-> table, row |-> row,
    rows |-> rows, val |-> val, ok |-> ok ]

\* the Row.id of each row of a sequence of rows
Ids(rows) == [i \in 1..Len(rows) |-> rows[i].id]

\* outcomes of baserow_client.get_table and of get_rows / Row.update
TableResults == {"ok", "raise", "none"}
CallResults == {"ok", "raise"}

Init ==
  /\ \E m \in 0..MaxRows, n \in 0..MaxRows :
       \E a \in [1..m -> SrcChoices], b \in [1..n -> TgtChoices] :
         tables = [t \in TableIds |->
                     IF t = 1 THEN MkTable(1, a) ELSE MkTable(2, b)]
  /\ configs \in ConfigLists
  /\ run = 0
  /\ pc = "idle"
  /\ ci = 0
  /\ queue = <<>>
  /\ qi = 0
  /\ index = EmptyIndex
  /\ err = NoErr
  /\ trace = <<>>
  /\ linked = {}
  /\ fullAtStart = FALSE

\* the configs of record_linker_configs that name a source table and a
\* reference field
Linkable(config) ==
  {"source_table_id", "source_table_reference_field"} \subseteq DOMAIN config

\* fault: the exception is swallowed and the loop goes on to the next config
RaiseIsolated(e, tr) ==
  /\ pc' = "config"
  /\ ci' = ci + 1
  /\ err' = err
  /\ trace' = tr
  /\ UNCHANGED << tables, configs, run, queue, qi, index, linked, fullAtStart >>
\* `except ...: logging.error(...); raise`: the exception leaves
\* link_related_records, the loop over the configs is abandoned
Raise(e, tr) ==
  /\ pc' = "raised"
  /\ err' = e
  /\ trace' = tr
  /\ UNCHANGED << tables, configs, run, ci, queue, qi, index, linked,
                  fullAtStart >>

\* __main__ calls link_related_records(baserow, record_linkers)
StartRun ==
  /\ pc \in {"idle", "done", "raised"}
  /\ run < MaxRuns
  /\ run' = run + 1
  /\ pc' = "config"
  /\ ci' = 1
  /\ queue' = <<>>
  /\ qi' = 0
  /\ index' = EmptyIndex
  /\ err' = NoErr
  /\ trace' = <<>>
  /\ fullAtStart' =
       \A i \in 1..Len(configs) :
         Linkable(configs[i]) =>
           \A k \in 1..Len(tables[configs[i]["source_table_id"]]) :
             ~IsEmpty(tables[configs[i]["source_table_id"]][k]
                        [configs[i]["source_table_reference_field"]])
  /\ linked' = linked \cup
       { << trace[i].table, trace[i].row >> :
           i \in { j \in 1..Len(trace) : trace[j].op = "update" /\ trace[j].ok } }
  /\ UNCHANGED << tables, configs >>

\* head of `for record_linker_config in record_linker_configs`, the check of
\* required_fields and the extraction of the six values
Validate ==
  /\ pc = "config"
  /\ ci <= Len(configs)
  /\ LET record_linker_config == configs[ci]
         unread == SelectSeq(ExtractedKeys,
                             LAMBDA k : k \notin DOMAIN record_linker_config)
     IN IF FirstMissing(record_linker_config) # ""
        THEN Raise(Exc("ValueError", FirstMissing(record_linker_config)), trace)
        ELSE IF unread # <<>>
        THEN Raise(Exc("KeyError", Head(unread)), trace)
        ELSE /\ pc' = "fetch"
             /\ UNCHANGED << tables, configs, run, ci, queue, qi, index, err,
                             trace, linked, fullAtStart >>

\* the loop over the configs is exhausted: link_related_records returns
Finish ==
  /\ pc = "config"
  /\ ci > Len(configs)
  /\ pc' = "done"
  /\ UNCHANGED << tables, configs, run, ci, queue, qi, index, err, trace,
                  linked, fullAtStart >>

\* filter_baserow_table(baserow_client, source_table_id, [empty filter]) and
\* the test of its result
Fetch ==
  /\ pc = "fetch"
  /\ LET t == configs[ci]["source_table_id"]
         ref == configs[ci]["source_table_reference_field"]
         got(r) == Event("get_table", "fetch", t, 0, <<>>, PyNone, r = "ok")
         rows(r, n) == Event("get_rows", "fetch", t, 0, n, PyNone, r = "ok")
     IN \E r1 \in TableResults :
          IF r1 = "raise"
          THEN Raise(Exc("TransportError", "get_table"), Append(trace, got(r1)))
          ELSE IF r1 = "none"
          THEN Raise(Exc("ValueError", "table not found"),
                     Append(trace, got(r1)))
          ELSE \E r2 \in CallResults :
                 IF r2 = "raise"
                 THEN Raise(Exc("TransportError", "get_rows"),
                            trace \o << got(r1), rows(r2, <<>>) >>)
                 ELSE LET source_table_rows ==
                            filter_baserow_table(tables[t], ref)
                      IN /\ trace' = trace \o
                              << got(r1), rows(r2, Ids(source_table_rows)) >>
                         /\ queue' = source_table_rows
                         /\ qi' = 1
                         /\ IF NoUnlinkedRows(source_table_rows)
                            THEN /\ pc' = "config"
                                 /\ ci' = ci + 1
                            ELSE /\ pc' = "index"
                                 /\ ci' = ci
                         /\ UNCHANGED << tables, configs, run, index, err,
                                         linked, fullAtStart >>

\* create_index_from_table(baserow_client, target_table_id, match field)
BuildIndex ==
  /\ pc = "index"
  /\ LET t == configs[ci]["target_table_id"]
         field_name == configs[ci]["target_table_match_field"]
         got(r) == Event("get_table", "index", t, 0, <<>>, PyNone, r = "ok")
         rows(r, n) == Event("get_rows", "index", t, 0, n, PyNone, r = "ok")
     IN \E r1 \in TableResults :
          IF r1 = "raise"
          THEN Raise(Exc("TransportError", "get_table"), Append(trace, got(r1)))
          ELSE IF r1 = "none"
          THEN Raise(Exc("AttributeError", "get_rows"), Append(trace, got(r1)))
          ELSE \E r2 \in CallResults :
                 IF r2 = "raise"
                 THEN Raise(Exc("TransportError", "get_rows"),
                            trace \o << got(r1), rows(r2, <<>>) >>)
                 ELSE LET built == create_index_from_table(tables[t], field_name)
                          tr == trace \o << got(r1), rows(r2, Ids(tables[t])) >>
                      IN IF built.raised
                         THEN Raise(Exc("AttributeError", "strip"), tr)
                         ELSE /\ index' = built.index
                              /\ trace' = tr
                              /\ IF queue # <<>>
                                 THEN /\ pc' = "link"
                                      /\ ci' = ci
                                 ELSE /\ pc' = "config"
                                      /\ ci' = ci + 1
                              /\ UNCHANGED << tables, configs, run, queue, qi,
                                              err, linked, fullAtStart >>

\* fault: the loop over the rows is left after its first iteration
AdvanceBreak ==
  /\ pc' = "config"
  /\ ci' = ci + 1
  /\ qi' = qi
\* after the body of `for source_row in source_table_rows`: the next row, or
\* the next config when the rows are exhausted
Advance ==
  IF qi < Len(queue)
  THEN /\ qi' = qi + 1
       /\ UNCHANGED << pc, ci >>
  ELSE /\ pc' = "config"
       /\ ci' = ci + 1
       /\ qi' = qi

\* one iteration of `for source_row in source_table_rows`
LinkRow ==
  /\ pc = "link"
  /\ LET source_row == queue[qi]
         t == configs[ci]["source_table_id"]
         match_field == configs[ci]["source_table_match_field"]
         pk_field == configs[ci]["target_table_primary_key_field"]
         ref == configs[ci]["source_table_reference_field"]
     IN IF match_field \notin DOMAIN source_row
        THEN Raise(Exc("KeyError", match_field), trace)
        ELSE IF ~HasStrip(source_row[match_field])
        THEN Raise(Exc("AttributeError", "strip"), trace)
        ELSE LET match_field_value == normalize(source_row[match_field].v)
             IN IF match_field_value \in DOMAIN index
                THEN LET target_row == index[match_field_value]
                     IN IF pk_field \notin DOMAIN target_row
                        THEN Raise(Exc("KeyError", pk_field), trace)
                        ELSE LET val == ReferenceValue(target_row, pk_field)
                                 upd(r) == Event("update", "link", t,
                                                 source_row.id, <<>>, val,
                                                 r = "ok")
                             IN \E r \in CallResults :
                                  IF r = "raise"
                                  THEN Raise(Exc("TransportError", "update"),
                                             Append(trace, upd(r)))
                                  ELSE /\ tables' =
                                            [tables EXCEPT ![t][source_row.id] =
                                               [f \in DOMAIN @ \cup {ref} |->
                                                  IF f = ref THEN val ELSE @[f]]]
                                       /\ trace' = Append(trace, upd(r))
                                       /\ Advance
                                       /\ UNCHANGED << configs, run, queue,
                                                       index, err, linked,
                                                       fullAtStart >>
                ELSE /\ trace' =
                          Append(trace, Event("warn_nomatch", "link", t,
                                              source_row.id, <<>>, PyNone, TRUE))
                     /\ Advance
                     /\ UNCHANGED << tables, configs, run, queue, index, err,
                                     linked, fullAtStart >>

Next ==
  \/ StartRun
  \/ Validate
  \/ Finish
  \/ Fetch
  \/ BuildIndex
  \/ LinkRow

Spec == Init /\ [][Next]_vars

\* The state at the call create_index_from_table(baserow_client, 2, "name") of
\* a run over one config whose source table holds one unlinked row; the
\* target table is any sequence of at most MaxScan rows.
InitIndex ==
  /\ \E n \in 0..MaxScan :
       \E b \in [1..n -> ScanChoices] :
         tables = [t \in TableIds |->
                     IF t = 1 THEN MkTable(1, << PyStr(<<"B">>) >>)
                     ELSE MkTable(2, b)]
  /\ configs = << BaseConfig(1, 2) >>
  /\ run = 1
  /\ pc = "index"
  /\ ci = 1
  /\ queue = tables[1]
  /\ qi = 1
  /\ index = EmptyIndex
  /\ err = NoErr
  /\ trace = << Event("get_table", "fetch", 1, 0, <<>>, PyNone, TRUE),
                Event("get_rows", "fetch", 1, 0, <<1>>, PyNone, TRUE) >>
  /\ linked = {}
  /\ fullAtStart = FALSE

NextIndex == BuildIndex

SpecIndex == InitIndex /\ [][NextIndex]_vars

\* ------------------------------------------------- vocabulary of the claims
\* The claims are stated over the remote tables and the trace, with the
\* matching rule written a second time, independently of normalize above.

SixKeys ==
  { "source_table_id", "target_table_id", "source_table_match_field",
    "target_table_match_field", "target_table_primary_key_field",
    "source_table_reference_field" }

\* trimmed and lower-cased text
NonSpace(s) == { i \in 1..Len(s) : s[i] # " " }
Least(S) == CHOOSE m \in S : \A x \in S : m <= x
Last(S) == CHOOSE m \in S : \A x \in S : x <= m
Trimmed(s) ==
  IF NonSpace(s) = {} THEN <<>> ELSE SubSeq(s, Least(NonSpace(s)), Last(NonSpace(s)))
LowerOf == [c \in {"A", "B", "Z", "a", "b", "z", " ", "7"} |->
              CASE c = "A" -> "a" [] c = "B" -> "b" [] c = "Z" -> "z" [] OTHER -> c]
Key(s) == [i \in 1..Len(Trimmed(s)) |-> LowerOf[Trimmed(s)[i]]]

\* a row whose field f is present and text: its key can be computed
Normalizable(row, f) == f \in DOMAIN row /\ row[f].t = "str"
\* a target row whose match field is present and non-empty text
Contributes(row, f) == Normalizable(row, f) /\ row[f].v # <<>>
\* a target row whose match field is present, non-empty and not text
NotText(row, f) == f \in DOMAIN row /\ row[f].t = "int" /\ row[f].v # << "0" >>

\* positions of the rows of a table that have the key k in field f
Matching(rows, f, k) ==
  { i \in 1..Len(rows) : Contributes(rows[i], f) /\ Key(rows[i][f].v) = k }

\* the config whose work queue the variable queue holds, and how many of its
\* rows the linking pass has gone past
InLink == pc = "link" \/ (pc = "raised" /\ err.at = "link")
InIndex == pc = "index" \/ (pc = "raised" /\ err.at = "index")
QueueCfg == IF InLink \/ InIndex THEN ci ELSE ci - 1
Passed == IF InLink THEN qi - 1 ELSE IF InIndex THEN 0 ELSE Len(queue)

\* the target-table positions matching the source row r under config c
MatchesOf(c, r) ==
  Matching(tables[configs[c]["target_table_id"]],
           configs[c]["target_table_match_field"],
           Key(r[configs[c]["source_table_match_field"]].v))

\* the value the linker must write for source row r under config c
Expected(c, r) ==
  tables[configs[c]["target_table_id"]][Last(MatchesOf(c, r))]
    [configs[c]["target_table_primary_key_field"]]

\* the current remote value of the reference field of row `id` of config c's
\* source table
RemoteRef(c, id) ==
  tables[configs[c]["source_table_id"]][id]
    [configs[c]["source_table_reference_field"]]

SourceRow(c, id) == tables[configs[c]["source_table_id"]][id]

Events == 1..Len(trace)
IsUpdate(i) == trace[i].op = "update"
IsFetchRows(i) == trace[i].op = "get_rows" /\ trace[i].phase = "fetch"
IsIndexRows(i) == trace[i].op = "get_rows" /\ trace[i].phase = "index"
TargetRead(i) == trace[i].phase = "index"
Range(q) == { q[i] : i \in 1..Len(q) }
\* the match-field contents of a row, Absent when it has no such field
NameOf(row) == IF "name" \in DOMAIN row THEN row["name"] ELSE Absent

\* ---------------------------------------------------------------- C1
\* C1: configs are processed strictly in list order and a failure in config i
\* halts the run: every remote operation belongs to a config up to the current
\* one, in non-decreasing order; a failed remote call is the last event of the
\* run, which has raised at that config; and every config the run has gone
\* past did not fail (it had the six keys, its calls succeeded, its target
\* rows could be indexed and its queue rows could be keyed).
C1_FailureHaltsRun ==
  /\ \A i \in Events : trace[i].cfg <= ci /\ trace[i].cfg >= 1
  /\ \A i, j \in Events : i <= j => trace[i].cfg <= trace[j].cfg
  /\ pc = "raised" => err # NoErr /\ ci <= Len(configs)
  /\ \A i \in Events :
       ~trace[i].ok => i = Len(trace) /\ pc = "raised" /\ ci = trace[i].cfg
  /\ pc # "idle" =>
       \A c \in 1..(ci - 1) :
         /\ c <= Len(configs)
         /\ SixKeys \subseteq DOMAIN configs[c]
         /\ \A i \in Events :
              trace[i].cfg = c /\ IsIndexRows(i) =>
                \A k \in Range(trace[i].rows) :
                  ~NotText(tables[trace[i].table][k],
                           configs[c]["target_table_match_field"])
         /\ \A i \in Events :
              trace[i].cfg = c /\ IsFetchRows(i) =>
                \A k \in Range(trace[i].rows) :
                  Normalizable(SourceRow(c, k),
                               configs[c]["source_table_match_field"])

\* two configs, the first failed with a transport error in fetchUnlinked
C1_Witness ==
  /\ pc = "raised"
  /\ Len(configs) = 2
  /\ ci = 1
  /\ err.kind = "TransportError"
  /\ err.at = "fetch"
  /\ SixKeys \subseteq DOMAIN configs[2]

\* ---------------------------------------------------------------- C2
\* C2 as stated: a failed retrieval of the target rows in buildIndex aborts
\* only that config, the run is not aborted.
C2_IndexFailureIsolated ==
  \A i \in Events : IsIndexRows(i) /\ ~trace[i].ok => pc # "raised"

\* C2 amended: a failed retrieval of the target rows in buildIndex aborts the
\* whole run: the run has raised a transport error at that config from
\* create_index_from_table, and the failed call is its last remote operation.
C2_IndexFailureAbortsRun ==
  \A i \in Events :
    IsIndexRows(i) /\ ~trace[i].ok =>
      /\ pc = "raised"
      /\ err = [kind |-> "TransportError", what |-> "get_rows", at |-> "index"]
      /\ ci = trace[i].cfg
      /\ i = Len(trace)

C2_Witness ==
  /\ Len(trace) > 0
  /\ IsIndexRows(Len(trace))
  /\ ~trace[Len(trace)].ok
  /\ ci < Len(configs)
  /\ SixKeys \subseteq DOMAIN configs[ci + 1]

\* ---------------------------------------------------------------- C3
\* C3: a config whose work queue is empty reads nothing of the target table,
\* updates nothing, raises nothing, and the run goes on to the next config;
\* create_index_from_table is only ever entered with a non-empty queue.
C3_EmptyQueueShortCircuits ==
  /\ pc \in {"index", "link"} => queue # <<>>
  /\ \A i \in Events :
       IsFetchRows(i) /\ trace[i].ok =>
         \* the rows fetched are those with an empty reference field
         /\ \A k \in 1..Len(tables[trace[i].table]) :
              IsEmpty(RemoteRef(trace[i].cfg, k)) =>
                k \in Range(trace[i].rows)
         /\ trace[i].rows = <<>> =>
              /\ \A j \in Events :
                   trace[j].cfg = trace[i].cfg =>
                     ~TargetRead(j) /\ ~IsUpdate(j)
              /\ ci > trace[i].cfg

\* a run that went past a config with an empty queue although the source
\* table has rows, and reached the next config
C3_Witness ==
  /\ pc = "fetch"
  /\ ci = 2
  /\ Len(tables[1]) > 0
  /\ \E i \in Events :
       IsFetchRows(i) /\ trace[i].ok /\ trace[i].cfg = 1 /\ trace[i].rows = <<>>

\* ---------------------------------------------------------------- C4
\* C4: every queue row the linking pass has gone past whose key is in the
\* target table got an update, and its remote reference field holds the
\* primary-key value of the last target row with that key; every update ever
\* issued carries exactly that value.
C4_MatchedRowGetsPrimaryKey ==
  /\ \A j \in 1..Passed :
       (Normalizable(queue[j], configs[QueueCfg]["source_table_match_field"])
        /\ MatchesOf(QueueCfg, queue[j]) # {}) =>
         /\ \E i \in Events :
              /\ IsUpdate(i) /\ trace[i].ok
              /\ trace[i].cfg = QueueCfg /\ trace[i].row = queue[j].id
              /\ trace[i].val = Expected(QueueCfg, queue[j])
         /\ RemoteRef(QueueCfg, queue[j].id) = Expected(QueueCfg, queue[j])
  /\ \A i \in Events :
       IsUpdate(i) =>
         /\ MatchesOf(trace[i].cfg, SourceRow(trace[i].cfg, trace[i].row)) # {}
         /\ trace[i].val =
              Expected(trace[i].cfg, SourceRow(trace[i].cfg, trace[i].row))
         /\ trace[i].ok => RemoteRef(trace[i].cfg, trace[i].row) = trace[i].val

\* source "B", target rows "b" (pk 41) then " B " (pk 42): the row got 42
C4_Witness ==
  /\ pc = "config"
  /\ Len(tables[1]) = 1
  /\ NameOf(tables[1][1]) = PyStr(<<"B">>)
  /\ Len(tables[2]) = 2
  /\ NameOf(tables[2][1]) = PyStr(<<"b">>)
  /\ NameOf(tables[2][2]) = PyStr(<<" ", "B", " ">>)
  /\ tables[1][1].link = PyInt(42)

\* ---------------------------------------------------------------- C5
\* the state in which create_index_from_table has just returned an index, and
\* the table and field it scanned
IndexReturned ==
  /\ Len(trace) > 0
  /\ IsIndexRows(Len(trace))
  /\ trace[Len(trace)].ok
  /\ pc # "raised"
Scanned == tables[configs[trace[Len(trace)].cfg]["target_table_id"]]
ScanField == configs[trace[Len(trace)].cfg]["target_table_match_field"]
ScannedNames ==
  [i \in 1..Len(Scanned) |->
     IF ScanField \in DOMAIN Scanned[i] THEN Scanned[i][ScanField] ELSE Absent]

\* C5: the index returned has as keys exactly the normalized match values of
\* the rows whose value is present and non-empty, each key mapped to the last
\* such row in scan order; no row with an empty or missing value is in it; for
\* ["A", " a ", "", null, "B"] the keys are "a" and "b", "a" mapped to the
\* second row.
C5_IndexKeysAndLastWins ==
  IndexReturned =>
    /\ DOMAIN index =
         { Key(Scanned[i][ScanField].v) :
             i \in { j \in 1..Len(Scanned) : Contributes(Scanned[j], ScanField) } }
    /\ \A k \in DOMAIN index :
         /\ index[k] = Scanned[Last(Matching(Scanned, ScanField, k))]
         /\ Contributes(index[k], ScanField)
    /\ ScannedNames = << PyStr(<<"A">>), PyStr(<<" ", "a", " ">>), PyStr(<<>>),
                         PyNone, PyStr(<<"B">>) >> =>
         /\ DOMAIN index = { <<"a">>, <<"b">> }
         /\ index[<<"a">>].id = 2
         /\ index[<<"b">>].id = 5

C5_Witness ==
  /\ IndexReturned
  /\ ScannedNames = << PyStr(<<"A">>), PyStr(<<" ", "a", " ">>), PyStr(<<>>),
                       PyNone, PyStr(<<"B">>) >>

\* ---------------------------------------------------------------- C9
\* the state right after create_index_from_table retrieved the rows and went
\* through them, whether it returned or raised
RowsRetrieved ==
  /\ Len(trace) > 0
  /\ IsIndexRows(Len(trace))
  /\ trace[Len(trace)].ok
  /\ pc = "raised" => err.at = "index"

\* C9 as stated: once the rows are retrieved buildIndex always returns an
\* index, whatever the match-field values.
C9_AlwaysReturnsIndex == RowsRetrieved => pc # "raised"

\* C9 amended: once the rows are retrieved, buildIndex returns an index exactly
\* when no scanned row holds a non-empty value that is not text (such a value
\* raises AttributeError out of the run); when it returns, every scanned row
\* either has its key in the index or was skipped because its match field is
\* missing or empty, and the index has no more entries than contributing rows.
C9_TotalOverTextRows ==
  RowsRetrieved =>
    /\ pc = "raised" <=>
         \E i \in 1..Len(Scanned) : NotText(Scanned[i], ScanField)
    /\ pc = "raised" =>
         err = [kind |-> "AttributeError", what |-> "strip", at |-> "index"]
    /\ pc # "raised" =>
         /\ \A i \in 1..Len(Scanned) :
              \/ /\ Contributes(Scanned[i], ScanField)
                 /\ Key(Scanned[i][ScanField].v) \in DOMAIN index
              \/ ScanField \notin DOMAIN Scanned[i]
              \/ IsEmpty(Scanned[i][ScanField])
         /\ Cardinality(DOMAIN index) <=
              Cardinality({ i \in 1..Len(Scanned) :
                              Contributes(Scanned[i], ScanField) })

\* an index returned from rows of all three kinds: missing, empty, text
C9_Witness ==
  /\ IndexReturned
  /\ \E i, j, k \in 1..Len(Scanned) :
       /\ ScannedNames[i] = Absent
       /\ ScannedNames[j] = PyNone
       /\ ScannedNames[k] = PyStr(<<"B">>)
  /\ DOMAIN index = { <<"b">> }

\* ---------------------------------------------------------------- C6
\* C6: a row whose reference field link has set is never fetched into a work
\* queue again, and a run that starts with every source table fully linked
\* fetches only empty work queues, updates no row and reads no target table.
C6_LinkedRowsLeaveQueue ==
  /\ \A i \in Events :
       IsFetchRows(i) /\ trace[i].ok =>
         \A k \in Range(trace[i].rows) :
           /\ << trace[i].table, k >> \notin linked
           /\ ~\E j \in 1..(i - 1) :
                 /\ IsUpdate(j) /\ trace[j].ok
                 /\ trace[j].table = trace[i].table /\ trace[j].row = k
  /\ fullAtStart =>
       \A i \in Events :
         /\ ~IsUpdate(i)
         /\ ~TargetRead(i)
         /\ IsFetchRows(i) /\ trace[i].ok => trace[i].rows = <<>>

\* the second run, over a source table the first run linked completely
C6_Witness ==
  /\ run = 2
  /\ pc = "done"
  /\ fullAtStart
  /\ linked # {}
  /\ Cardinality(linked) = Len(tables[1])
  /\ \E i \in Events : IsFetchRows(i) /\ trace[i].ok

\* ---------------------------------------------------------------- C7
\* C7: a queue row the linking pass has gone past whose key is not in the
\* target table was warned about and not updated, and its reference field is
\* still empty; such a row never makes the run raise; the pass goes on to the
\* rows after it.
C7_UnmatchedRowUntouched ==
  /\ \A j \in 1..Passed :
       (Normalizable(queue[j], configs[QueueCfg]["source_table_match_field"])
        /\ MatchesOf(QueueCfg, queue[j]) = {}) =>
         /\ \E i \in Events :
              /\ trace[i].op = "warn_nomatch"
              /\ trace[i].cfg = QueueCfg /\ trace[i].row = queue[j].id
         /\ ~\E i \in Events :
               IsUpdate(i) /\ trace[i].cfg = QueueCfg /\ trace[i].row = queue[j].id
         /\ IsEmpty(RemoteRef(QueueCfg, queue[j].id))
  /\ (pc = "raised" /\ err.at = "link") =>
       ~(/\ Normalizable(queue[qi], configs[ci]["source_table_match_field"])
         /\ MatchesOf(ci, queue[qi]) = {})
  /\ \A i \in Events :
       trace[i].op = "warn_nomatch" =>
         MatchesOf(trace[i].cfg, SourceRow(trace[i].cfg, trace[i].row)) = {}

\* "Z" then "B" in the queue: the pass went past the unmatched first row and
\* linked the second; then the run reached the next config
C7_Witness ==
  /\ pc = "fetch"
  /\ ci = 2
  /\ Len(tables[1]) = 2
  /\ NameOf(tables[1][1]) = PyStr(<<"Z">>)
  /\ tables[1][1].link = PyNone
  /\ tables[1][2].link # PyNone

\* ---------------------------------------------------------------- C8
\* the first of the six keys, in the order of required_fields, that config c
\* lacks
KeyOrder ==
  << "source_table_id", "target_table_id", "source_table_match_field",
     "target_table_match_field", "target_table_primary_key_field",
     "source_table_reference_field" >>
FirstLacking(c) ==
  CHOOSE k \in SixKeys \ DOMAIN configs[c] :
    \A i \in 1..Len(KeyOrder) :
      KeyOrder[i] = k =>
        \A j \in 1..(i - 1) : KeyOrder[j] \in DOMAIN configs[c]

\* C8: no remote operation is made for a config that lacks one of the six
\* keys; the run never goes past such a config: it raises ValueError naming
\* the first missing key, leaving the updates of the earlier configs in place.
C8_MissingKeyAbortsRun ==
  /\ \A i \in Events : SixKeys \subseteq DOMAIN configs[trace[i].cfg]
  /\ pc \in {"fetch", "index", "link"} => SixKeys \subseteq DOMAIN configs[ci]
  /\ pc # "idle" =>
       \A c \in 1..(ci - 1) : SixKeys \subseteq DOMAIN configs[c]
  /\ (pc = "raised" /\ ~(SixKeys \subseteq DOMAIN configs[ci])) =>
       /\ err = [kind |-> "ValueError", what |-> FirstLacking(ci),
                 at |-> "config"]
       /\ \A i \in Events :
            /\ trace[i].cfg < ci
            /\ IsUpdate(i) /\ trace[i].ok =>
                 RemoteRef(trace[i].cfg, trace[i].row) = trace[i].val
  /\ (pc = "raised" /\ err.at = "config") =>
       ~(SixKeys \subseteq DOMAIN configs[ci])

\* the second config lacks two keys; the first one's update is still there
C8_Witness ==
  /\ pc = "raised"
  /\ ci = 2
  /\ err.kind = "ValueError"
  /\ err.what = "source_table_match_field"
  /\ "source_table_reference_field" \notin DOMAIN configs[2]
  /\ \E i \in Events : IsUpdate(i) /\ trace[i].ok
  /\ tables[1][1].link # PyNone

\* --------------------------------------------------------------- C10
\* C10: the linking pass never goes past a queue row that lacks the match
\* field or whose value is not text: the run raises there (KeyError for a
\* missing field, AttributeError otherwise); the matched rows before it keep
\* the values written, and nothing is done for the rows after it nor for any
\* later config.
C10_BadSourceRowAbortsRun ==
  /\ \A j \in 1..Passed :
       Normalizable(queue[j], configs[QueueCfg]["source_table_match_field"])
  /\ (/\ pc = "raised" /\ err.at = "link"
      /\ ~Normalizable(queue[qi], configs[ci]["source_table_match_field"])) =>
       /\ err.kind =
            IF configs[ci]["source_table_match_field"] \in DOMAIN queue[qi]
            THEN "AttributeError" ELSE "KeyError"
       /\ \A j \in 1..(qi - 1) :
            MatchesOf(ci, queue[j]) # {} =>
              RemoteRef(ci, queue[j].id) = Expected(ci, queue[j])
       /\ \A i \in Events :
            /\ trace[i].cfg <= ci
            /\ (trace[i].cfg = ci /\ trace[i].phase = "link") =>
                 \E j \in 1..(qi - 1) : trace[i].row = queue[j].id
  /\ (pc = "link" /\ ~Normalizable(queue[qi],
                                   configs[ci]["source_table_match_field"])) =>
       \A j \in (qi + 1)..Len(queue) :
         IsEmpty(RemoteRef(ci, queue[j].id))

\* "B" then a row without the match field: the first row stays linked, the
\* run has raised at the second, with a second config left unprocessed
C10_Witness ==
  /\ pc = "raised"
  /\ err.at = "link"
  /\ err.kind = "KeyError"
  /\ qi = 2
  /\ ci = 1
  /\ Len(configs) = 2
  /\ tables[1][1].link # PyNone

\* a null match value raises AttributeError
C10_WitnessNull ==
  /\ pc = "raised"
  /\ err.at = "link"
  /\ err.kind = "AttributeError"
  /\ NameOf(queue[qi]) = PyNone

====
